---- MODULE Spec2Model ----
(***************************************************************************)
(* Detection lifecycle of the lung disease detection application:          *)
(* app/models.py (the persisted rows) and app/services.py (UserService,    *)
(* ImageService, DetectionService).  Every service method opens a session, *)
(* changes rows and commits; process_detection is a coroutine with one     *)
(* suspension point (asyncio.sleep) between its two sessions.              *)
(***************************************************************************)
EXTENDS Integers, Sequences, FiniteSets, TLC

(***************************************************************************)
(* Bounds of the model.                                                    *)
(***************************************************************************)
MaxUsers == 1
MaxImages == 1
MaxDetections == 1
MaxClock == 1
MaxSleeping == 2
MaxUploads == 2
MaxHistory == 2
MaxStarts == 2

(***************************************************************************)
(* Optional[T]: None is the empty sequence, a set value is <<v>>.          *)
(***************************************************************************)
None == <<>>
Some(v) == <<v>>
IsSet(o) == o /= None

(***************************************************************************)
(* Enumerations of app/models.py.                                          *)
(***************************************************************************)
PENDING == "pending"
PROCESSING == "processing"
COMPLETED == "completed"
FAILED == "failed"
DetectionStatus == {PENDING, PROCESSING, COMPLETED, FAILED}

NORMAL == "normal"
PNEUMONIA == "pneumonia"
TUBERCULOSIS == "tuberculosis"
COVID19 == "covid19"
LUNG_CANCER == "lung_cancer"
DiseaseType == {PNEUMONIA, TUBERCULOSIS, COVID19, LUNG_CANCER, NORMAL}

(***************************************************************************)
(* Inputs the callers draw their arguments from.                           *)
(***************************************************************************)
UserIdArgs == 1..(MaxUsers + 1)
ImageIdArgs == 1..(MaxImages + 1)
DetectionIdArgs == 1..(MaxDetections + 1)

\* a model name of 101 characters, one more than DiseaseDetectionCreate accepts
Ten == "0123456789"
LongModelName == "M" \o Ten \o Ten \o Ten \o Ten \o Ten \o Ten \o Ten \o Ten \o Ten \o Ten
ModelNames == {"TestModel", LongModelName}
ErrorMessages == {"corrupt data", "timeout"}
Contents == {"bytes1"}

\* file names are strings of characters, each character its code point:
\* "a.png", "b.JPG"
APng == <<97, 46, 112, 110, 103>>
BJpg == <<98, 46, 74, 80, 71>>
Filenames == {APng, BJpg}

VARIABLES
    users,       \* table users: id -> row
    images,      \* table xray_images: id -> row
    blobs,       \* files present under UPLOAD_DIR (their paths)
    detections,  \* table disease_detections: id -> row
    sleeping,    \* process_detection coroutines suspended in asyncio.sleep: detection id -> count
    tasks,       \* tasks made by asyncio.create_task(process_detection_async(...)): task -> [detection_id, at]
    clock,       \* the time, in UTC
    utc_offset,  \* the offset of the host's local time from UTC
    foreign_keys, \* whether the database behind get_session enforces its foreign keys
    ret          \* the last service call: its name, the id it concerns, the error it raised

vars == <<users, images, blobs, detections, sleeping, tasks, clock, utc_offset, foreign_keys, ret>>

(***************************************************************************)
(* The clocks.  The offsets are those of a host west of UTC, one on UTC    *)
(* and one east of it.                                                     *)
(***************************************************************************)
UtcOffsets == {-4, 0, 7}

\* datetime.utcnow(): a naive datetime in UTC
UtcNow == clock

\* datetime.now(): a naive datetime in the local time of the host
Now == clock + utc_offset

\* int(datetime.now().timestamp()): seconds since the epoch, whatever the zone
Timestamp == clock

(***************************************************************************)
(* Row constructors.                                                       *)
(***************************************************************************)
\* User(**user_data.model_dump()) with the defaults of the table model
User(name, email, phone, utcnow) ==
    [name |-> name, email |-> email, phone |-> phone, is_active |-> TRUE,
     created_at |-> utcnow, updated_at |-> utcnow]

\* a character is its code point; "." and "/"
Dot == 46
Slash == 47

\* the lower-case mapping of str.lower() beyond ASCII, for the characters whose
\* lower case is one other character: <<first, last, step, shift>> stands for
\* the characters first, first + step, ..., last, each lower-cased by adding
\* shift.  Capital sigma (931) is not in the table: its lower case depends on
\* the characters around it (FinalSigma).
LowerRuns ==
    <<<<192, 214, 1, 32>>, <<216, 222, 1, 32>>, <<256, 302, 2, 1>>,
      <<306, 310, 2, 1>>, <<313, 327, 2, 1>>, <<330, 374, 2, 1>>,
      <<376, 376, 1, -121>>, <<377, 381, 2, 1>>, <<385, 385, 1, 210>>,
      <<386, 388, 2, 1>>, <<390, 390, 1, 206>>, <<391, 391, 1, 1>>,
      <<393, 394, 1, 205>>, <<395, 395, 1, 1>>, <<398, 398, 1, 79>>,
      <<399, 399, 1, 202>>, <<400, 400, 1, 203>>, <<401, 401, 1, 1>>,
      <<403, 403, 1, 205>>, <<404, 404, 1, 207>>, <<406, 406, 1, 211>>,
      <<407, 407, 1, 209>>, <<408, 408, 1, 1>>, <<412, 412, 1, 211>>,
      <<413, 413, 1, 213>>, <<415, 415, 1, 214>>, <<416, 420, 2, 1>>,
      <<422, 422, 1, 218>>, <<423, 423, 1, 1>>, <<425, 425, 1, 218>>,
      <<428, 428, 1, 1>>, <<430, 430, 1, 218>>, <<431, 431, 1, 1>>,
      <<433, 434, 1, 217>>, <<435, 437, 2, 1>>, <<439, 439, 1, 219>>,
      <<440, 440, 1, 1>>, <<444, 444, 1, 1>>, <<452, 452, 1, 2>>,
      <<453, 453, 1, 1>>, <<455, 455, 1, 2>>, <<456, 456, 1, 1>>,
      <<458, 458, 1, 2>>, <<459, 475, 2, 1>>, <<478, 494, 2, 1>>,
      <<497, 497, 1, 2>>, <<498, 500, 2, 1>>, <<502, 502, 1, -97>>,
      <<503, 503, 1, -56>>, <<504, 542, 2, 1>>, <<544, 544, 1, -130>>,
      <<546, 562, 2, 1>>, <<570, 570, 1, 10795>>, <<571, 571, 1, 1>>,
      <<573, 573, 1, -163>>, <<574, 574, 1, 10792>>, <<577, 577, 1, 1>>,
      <<579, 579, 1, -195>>, <<580, 580, 1, 69>>, <<581, 581, 1, 71>>,
      <<582, 590, 2, 1>>, <<880, 882, 2, 1>>, <<886, 886, 1, 1>>,
      <<895, 895, 1, 116>>, <<902, 902, 1, 38>>, <<904, 906, 1, 37>>,
      <<908, 908, 1, 64>>, <<910, 911, 1, 63>>, <<913, 929, 1, 32>>,
      <<932, 939, 1, 32>>, <<975, 975, 1, 8>>, <<984, 1006, 2, 1>>,
      <<1012, 1012, 1, -60>>, <<1015, 1015, 1, 1>>, <<1017, 1017, 1, -7>>,
      <<1018, 1018, 1, 1>>, <<1021, 1023, 1, -130>>, <<1024, 1039, 1, 80>>,
      <<1040, 1071, 1, 32>>, <<1120, 1152, 2, 1>>, <<1162, 1214, 2, 1>>,
      <<1216, 1216, 1, 15>>, <<1217, 1229, 2, 1>>, <<1232, 1326, 2, 1>>,
      <<1329, 1366, 1, 48>>, <<4256, 4293, 1, 7264>>,
      <<4295, 4295, 1, 7264>>, <<4301, 4301, 1, 7264>>,
      <<5024, 5103, 1, 38864>>, <<5104, 5109, 1, 8>>,
      <<7312, 7354, 1, -3008>>, <<7357, 7359, 1, -3008>>,
      <<7680, 7828, 2, 1>>, <<7838, 7838, 1, -7615>>, <<7840, 7934, 2, 1>>,
      <<7944, 7951, 1, -8>>, <<7960, 7965, 1, -8>>, <<7976, 7983, 1, -8>>,
      <<7992, 7999, 1, -8>>, <<8008, 8013, 1, -8>>, <<8025, 8031, 2, -8>>,
      <<8040, 8047, 1, -8>>, <<8072, 8079, 1, -8>>, <<8088, 8095, 1, -8>>,
      <<8104, 8111, 1, -8>>, <<8120, 8121, 1, -8>>, <<8122, 8123, 1, -74>>,
      <<8124, 8124, 1, -9>>, <<8136, 8139, 1, -86>>, <<8140, 8140, 1, -9>>,
      <<8152, 8153, 1, -8>>, <<8154, 8155, 1, -100>>, <<8168, 8169, 1, -8>>,
      <<8170, 8171, 1, -112>>, <<8172, 8172, 1, -7>>,
      <<8184, 8185, 1, -128>>, <<8186, 8187, 1, -126>>,
      <<8188, 8188, 1, -9>>, <<8486, 8486, 1, -7517>>,
      <<8490, 8490, 1, -8383>>, <<8491, 8491, 1, -8262>>,
      <<8498, 8498, 1, 28>>, <<8544, 8559, 1, 16>>, <<8579, 8579, 1, 1>>,
      <<9398, 9423, 1, 26>>, <<11264, 11311, 1, 48>>, <<11360, 11360, 1, 1>>,
      <<11362, 11362, 1, -10743>>, <<11363, 11363, 1, -3814>>,
      <<11364, 11364, 1, -10727>>, <<11367, 11371, 2, 1>>,
      <<11373, 11373, 1, -10780>>, <<11374, 11374, 1, -10749>>,
      <<11375, 11375, 1, -10783>>, <<11376, 11376, 1, -10782>>,
      <<11378, 11378, 1, 1>>, <<11381, 11381, 1, 1>>,
      <<11390, 11391, 1, -10815>>, <<11392, 11490, 2, 1>>,
      <<11499, 11501, 2, 1>>, <<11506, 11506, 1, 1>>, <<42560, 42604, 2, 1>>,
      <<42624, 42650, 2, 1>>, <<42786, 42798, 2, 1>>, <<42802, 42862, 2, 1>>,
      <<42873, 42875, 2, 1>>, <<42877, 42877, 1, -35332>>,
      <<42878, 42886, 2, 1>>, <<42891, 42891, 1, 1>>,
      <<42893, 42893, 1, -42280>>, <<42896, 42898, 2, 1>>,
      <<42902, 42920, 2, 1>>, <<42922, 42922, 1, -42308>>,
      <<42923, 42923, 1, -42319>>, <<42924, 42924, 1, -42315>>,
      <<42925, 42925, 1, -42305>>, <<42926, 42926, 1, -42308>>,
      <<42928, 42928, 1, -42258>>, <<42929, 42929, 1, -42282>>,
      <<42930, 42930, 1, -42261>>, <<42931, 42931, 1, 928>>,
      <<42932, 42946, 2, 1>>, <<42948, 42948, 1, -48>>,
      <<42949, 42949, 1, -42307>>, <<42950, 42950, 1, -35384>>,
      <<42951, 42953, 2, 1>>, <<42960, 42960, 1, 1>>, <<42966, 42968, 2, 1>>,
      <<42997, 42997, 1, 1>>, <<65313, 65338, 1, 32>>,
      <<66560, 66599, 1, 40>>, <<66736, 66771, 1, 40>>,
      <<66928, 66938, 1, 39>>, <<66940, 66954, 1, 39>>,
      <<66956, 66962, 1, 39>>, <<66964, 66965, 1, 39>>,
      <<68736, 68786, 1, 64>>, <<71840, 71871, 1, 32>>,
      <<93760, 93791, 1, 32>>, <<125184, 125217, 1, 34>>>>

\* the case-ignorable characters, as ranges <<first, last>>: the scan that
\* decides the lower case of a capital sigma steps over them
CaseIgnorableRanges ==
    <<<<39, 39>>, <<46, 46>>, <<58, 58>>, <<94, 94>>, <<96, 96>>,
      <<168, 168>>, <<173, 173>>, <<175, 175>>, <<180, 180>>, <<183, 184>>,
      <<688, 879>>, <<884, 885>>, <<890, 890>>, <<900, 901>>, <<903, 903>>,
      <<1155, 1161>>, <<1369, 1369>>, <<1375, 1375>>, <<1425, 1469>>,
      <<1471, 1471>>, <<1473, 1474>>, <<1476, 1477>>, <<1479, 1479>>,
      <<1524, 1524>>, <<1536, 1541>>, <<1552, 1562>>, <<1564, 1564>>,
      <<1600, 1600>>, <<1611, 1631>>, <<1648, 1648>>, <<1750, 1757>>,
      <<1759, 1768>>, <<1770, 1773>>, <<1807, 1807>>, <<1809, 1809>>,
      <<1840, 1866>>, <<1958, 1968>>, <<2027, 2037>>, <<2042, 2042>>,
      <<2045, 2045>>, <<2070, 2093>>, <<2137, 2139>>, <<2184, 2184>>,
      <<2192, 2193>>, <<2200, 2207>>, <<2249, 2306>>, <<2362, 2362>>,
      <<2364, 2364>>, <<2369, 2376>>, <<2381, 2381>>, <<2385, 2391>>,
      <<2402, 2403>>, <<2417, 2417>>, <<2433, 2433>>, <<2492, 2492>>,
      <<2497, 2500>>, <<2509, 2509>>, <<2530, 2531>>, <<2558, 2558>>,
      <<2561, 2562>>, <<2620, 2620>>, <<2625, 2626>>, <<2631, 2632>>,
      <<2635, 2637>>, <<2641, 2641>>, <<2672, 2673>>, <<2677, 2677>>,
      <<2689, 2690>>, <<2748, 2748>>, <<2753, 2757>>, <<2759, 2760>>,
      <<2765, 2765>>, <<2786, 2787>>, <<2810, 2815>>, <<2817, 2817>>,
      <<2876, 2876>>, <<2879, 2879>>, <<2881, 2884>>, <<2893, 2893>>,
      <<2901, 2902>>, <<2914, 2915>>, <<2946, 2946>>, <<3008, 3008>>,
      <<3021, 3021>>, <<3072, 3072>>, <<3076, 3076>>, <<3132, 3132>>,
      <<3134, 3136>>, <<3142, 3144>>, <<3146, 3149>>, <<3157, 3158>>,
      <<3170, 3171>>, <<3201, 3201>>, <<3260, 3260>>, <<3263, 3263>>,
      <<3270, 3270>>, <<3276, 3277>>, <<3298, 3299>>, <<3328, 3329>>,
      <<3387, 3388>>, <<3393, 3396>>, <<3405, 3405>>, <<3426, 3427>>,
      <<3457, 3457>>, <<3530, 3530>>, <<3538, 3540>>, <<3542, 3542>>,
      <<3633, 3633>>, <<3636, 3642>>, <<3654, 3662>>, <<3761, 3761>>,
      <<3764, 3772>>, <<3782, 3782>>, <<3784, 3789>>, <<3864, 3865>>,
      <<3893, 3893>>, <<3895, 3895>>, <<3897, 3897>>, <<3953, 3966>>,
      <<3968, 3972>>, <<3974, 3975>>, <<3981, 3991>>, <<3993, 4028>>,
      <<4038, 4038>>, <<4141, 4144>>, <<4146, 4151>>, <<4153, 4154>>,
      <<4157, 4158>>, <<4184, 4185>>, <<4190, 4192>>, <<4209, 4212>>,
      <<4226, 4226>>, <<4229, 4230>>, <<4237, 4237>>, <<4253, 4253>>,
      <<4348, 4348>>, <<4957, 4959>>, <<5906, 5908>>, <<5938, 5939>>,
      <<5970, 5971>>, <<6002, 6003>>, <<6068, 6069>>, <<6071, 6077>>,
      <<6086, 6086>>, <<6089, 6099>>, <<6103, 6103>>, <<6109, 6109>>,
      <<6155, 6159>>, <<6211, 6211>>, <<6277, 6278>>, <<6313, 6313>>,
      <<6432, 6434>>, <<6439, 6440>>, <<6450, 6450>>, <<6457, 6459>>,
      <<6679, 6680>>, <<6683, 6683>>, <<6742, 6742>>, <<6744, 6750>>,
      <<6752, 6752>>, <<6754, 6754>>, <<6757, 6764>>, <<6771, 6780>>,
      <<6783, 6783>>, <<6823, 6823>>, <<6832, 6862>>, <<6912, 6915>>,
      <<6964, 6964>>, <<6966, 6970>>, <<6972, 6972>>, <<6978, 6978>>,
      <<7019, 7027>>, <<7040, 7041>>, <<7074, 7077>>, <<7080, 7081>>,
      <<7083, 7085>>, <<7142, 7142>>, <<7144, 7145>>, <<7149, 7149>>,
      <<7151, 7153>>, <<7212, 7219>>, <<7222, 7223>>, <<7288, 7293>>,
      <<7376, 7378>>, <<7380, 7392>>, <<7394, 7400>>, <<7405, 7405>>,
      <<7412, 7412>>, <<7416, 7417>>, <<7468, 7530>>, <<7544, 7544>>,
      <<7579, 7679>>, <<8125, 8125>>, <<8127, 8129>>, <<8141, 8143>>,
      <<8157, 8159>>, <<8173, 8175>>, <<8189, 8190>>, <<8203, 8207>>,
      <<8216, 8217>>, <<8228, 8228>>, <<8231, 8231>>, <<8234, 8238>>,
      <<8288, 8292>>, <<8294, 8303>>, <<8305, 8305>>, <<8319, 8319>>,
      <<8336, 8348>>, <<8400, 8432>>, <<11388, 11389>>, <<11503, 11505>>,
      <<11631, 11631>>, <<11647, 11647>>, <<11744, 11775>>, <<11823, 11823>>,
      <<12293, 12293>>, <<12330, 12333>>, <<12337, 12341>>, <<12347, 12347>>,
      <<12441, 12446>>, <<12540, 12542>>, <<40981, 40981>>, <<42232, 42237>>,
      <<42508, 42508>>, <<42607, 42610>>, <<42612, 42621>>, <<42623, 42623>>,
      <<42652, 42655>>, <<42736, 42737>>, <<42752, 42785>>, <<42864, 42864>>,
      <<42888, 42890>>, <<42994, 42996>>, <<43000, 43001>>, <<43010, 43010>>,
      <<43014, 43014>>, <<43019, 43019>>, <<43045, 43046>>, <<43052, 43052>>,
      <<43204, 43205>>, <<43232, 43249>>, <<43263, 43263>>, <<43302, 43309>>,
      <<43335, 43345>>, <<43392, 43394>>, <<43443, 43443>>, <<43446, 43449>>,
      <<43452, 43453>>, <<43471, 43471>>, <<43493, 43494>>, <<43561, 43566>>,
      <<43569, 43570>>, <<43573, 43574>>, <<43587, 43587>>, <<43596, 43596>>,
      <<43632, 43632>>, <<43644, 43644>>, <<43696, 43696>>, <<43698, 43700>>,
      <<43703, 43704>>, <<43710, 43711>>, <<43713, 43713>>, <<43741, 43741>>,
      <<43756, 43757>>, <<43763, 43764>>, <<43766, 43766>>, <<43867, 43871>>,
      <<43881, 43883>>, <<44005, 44005>>, <<44008, 44008>>, <<44013, 44013>>,
      <<64286, 64286>>, <<64434, 64450>>, <<65024, 65039>>, <<65043, 65043>>,
      <<65056, 65071>>, <<65106, 65106>>, <<65109, 65109>>, <<65279, 65279>>,
      <<65287, 65287>>, <<65294, 65294>>, <<65306, 65306>>, <<65342, 65342>>,
      <<65344, 65344>>, <<65392, 65392>>, <<65438, 65439>>, <<65507, 65507>>,
      <<65529, 65531>>, <<66045, 66045>>, <<66272, 66272>>, <<66422, 66426>>,
      <<67456, 67461>>, <<67463, 67504>>, <<67506, 67514>>, <<68097, 68099>>,
      <<68101, 68102>>, <<68108, 68111>>, <<68152, 68154>>, <<68159, 68159>>,
      <<68325, 68326>>, <<68900, 68903>>, <<69291, 69292>>, <<69446, 69456>>,
      <<69506, 69509>>, <<69633, 69633>>, <<69688, 69702>>, <<69744, 69744>>,
      <<69747, 69748>>, <<69759, 69761>>, <<69811, 69814>>, <<69817, 69818>>,
      <<69821, 69821>>, <<69826, 69826>>, <<69837, 69837>>, <<69888, 69890>>,
      <<69927, 69931>>, <<69933, 69940>>, <<70003, 70003>>, <<70016, 70017>>,
      <<70070, 70078>>, <<70089, 70092>>, <<70095, 70095>>, <<70191, 70193>>,
      <<70196, 70196>>, <<70198, 70199>>, <<70206, 70206>>, <<70367, 70367>>,
      <<70371, 70378>>, <<70400, 70401>>, <<70459, 70460>>, <<70464, 70464>>,
      <<70502, 70508>>, <<70512, 70516>>, <<70712, 70719>>, <<70722, 70724>>,
      <<70726, 70726>>, <<70750, 70750>>, <<70835, 70840>>, <<70842, 70842>>,
      <<70847, 70848>>, <<70850, 70851>>, <<71090, 71093>>, <<71100, 71101>>,
      <<71103, 71104>>, <<71132, 71133>>, <<71219, 71226>>, <<71229, 71229>>,
      <<71231, 71232>>, <<71339, 71339>>, <<71341, 71341>>, <<71344, 71349>>,
      <<71351, 71351>>, <<71453, 71455>>, <<71458, 71461>>, <<71463, 71467>>,
      <<71727, 71735>>, <<71737, 71738>>, <<71995, 71996>>, <<71998, 71998>>,
      <<72003, 72003>>, <<72148, 72151>>, <<72154, 72155>>, <<72160, 72160>>,
      <<72193, 72202>>, <<72243, 72248>>, <<72251, 72254>>, <<72263, 72263>>,
      <<72273, 72278>>, <<72281, 72283>>, <<72330, 72342>>, <<72344, 72345>>,
      <<72752, 72758>>, <<72760, 72765>>, <<72767, 72767>>, <<72850, 72871>>,
      <<72874, 72880>>, <<72882, 72883>>, <<72885, 72886>>, <<73009, 73014>>,
      <<73018, 73018>>, <<73020, 73021>>, <<73023, 73029>>, <<73031, 73031>>,
      <<73104, 73105>>, <<73109, 73109>>, <<73111, 73111>>, <<73459, 73460>>,
      <<78896, 78904>>, <<92912, 92916>>, <<92976, 92982>>, <<92992, 92995>>,
      <<94031, 94031>>, <<94095, 94111>>, <<94176, 94177>>, <<94179, 94180>>,
      <<110576, 110579>>, <<110581, 110587>>, <<110589, 110590>>,
      <<113821, 113822>>, <<113824, 113827>>, <<118528, 118573>>,
      <<118576, 118598>>, <<119143, 119145>>, <<119155, 119170>>,
      <<119173, 119179>>, <<119210, 119213>>, <<119362, 119364>>,
      <<121344, 121398>>, <<121403, 121452>>, <<121461, 121461>>,
      <<121476, 121476>>, <<121499, 121503>>, <<121505, 121519>>,
      <<122880, 122886>>, <<122888, 122904>>, <<122907, 122913>>,
      <<122915, 122916>>, <<122918, 122922>>, <<123184, 123197>>,
      <<123566, 123566>>, <<123628, 123631>>, <<125136, 125142>>,
      <<125252, 125259>>, <<127995, 127999>>, <<917505, 917505>>,
      <<917536, 917631>>, <<917760, 917999>>>>

\* the cased characters that scan can stop at, as ranges <<first, last>>
CasedRanges ==
    <<<<65, 90>>, <<97, 122>>, <<170, 170>>, <<181, 181>>, <<186, 186>>,
      <<192, 214>>, <<216, 246>>, <<248, 442>>, <<444, 447>>, <<452, 659>>,
      <<661, 687>>, <<880, 883>>, <<886, 887>>, <<891, 893>>, <<895, 895>>,
      <<902, 902>>, <<904, 906>>, <<908, 908>>, <<910, 929>>, <<931, 1013>>,
      <<1015, 1153>>, <<1162, 1327>>, <<1329, 1366>>, <<1376, 1416>>,
      <<4256, 4293>>, <<4295, 4295>>, <<4301, 4301>>, <<4304, 4346>>,
      <<4349, 4351>>, <<5024, 5109>>, <<5112, 5117>>, <<7296, 7304>>,
      <<7312, 7354>>, <<7357, 7359>>, <<7424, 7467>>, <<7531, 7543>>,
      <<7545, 7578>>, <<7680, 7957>>, <<7960, 7965>>, <<7968, 8005>>,
      <<8008, 8013>>, <<8016, 8023>>, <<8025, 8025>>, <<8027, 8027>>,
      <<8029, 8029>>, <<8031, 8061>>, <<8064, 8116>>, <<8118, 8124>>,
      <<8126, 8126>>, <<8130, 8132>>, <<8134, 8140>>, <<8144, 8147>>,
      <<8150, 8155>>, <<8160, 8172>>, <<8178, 8180>>, <<8182, 8188>>,
      <<8450, 8450>>, <<8455, 8455>>, <<8458, 8467>>, <<8469, 8469>>,
      <<8473, 8477>>, <<8484, 8484>>, <<8486, 8486>>, <<8488, 8488>>,
      <<8490, 8493>>, <<8495, 8500>>, <<8505, 8505>>, <<8508, 8511>>,
      <<8517, 8521>>, <<8526, 8526>>, <<8544, 8575>>, <<8579, 8580>>,
      <<9398, 9449>>, <<11264, 11387>>, <<11390, 11492>>, <<11499, 11502>>,
      <<11506, 11507>>, <<11520, 11557>>, <<11559, 11559>>, <<11565, 11565>>,
      <<42560, 42605>>, <<42624, 42651>>, <<42786, 42863>>, <<42865, 42887>>,
      <<42891, 42894>>, <<42896, 42954>>, <<42960, 42961>>, <<42963, 42963>>,
      <<42965, 42969>>, <<42997, 42998>>, <<43002, 43002>>, <<43824, 43866>>,
      <<43872, 43880>>, <<43888, 43967>>, <<64256, 64262>>, <<64275, 64279>>,
      <<65313, 65338>>, <<65345, 65370>>, <<66560, 66639>>, <<66736, 66771>>,
      <<66776, 66811>>, <<66928, 66938>>, <<66940, 66954>>, <<66956, 66962>>,
      <<66964, 66965>>, <<66967, 66977>>, <<66979, 66993>>, <<66995, 67001>>,
      <<67003, 67004>>, <<68736, 68786>>, <<68800, 68850>>, <<71840, 71903>>,
      <<93760, 93823>>, <<119808, 119892>>, <<119894, 119964>>,
      <<119966, 119967>>, <<119970, 119970>>, <<119973, 119974>>,
      <<119977, 119980>>, <<119982, 119993>>, <<119995, 119995>>,
      <<119997, 120003>>, <<120005, 120069>>, <<120071, 120074>>,
      <<120077, 120084>>, <<120086, 120092>>, <<120094, 120121>>,
      <<120123, 120126>>, <<120128, 120132>>, <<120134, 120134>>,
      <<120138, 120144>>, <<120146, 120485>>, <<120488, 120512>>,
      <<120514, 120538>>, <<120540, 120570>>, <<120572, 120596>>,
      <<120598, 120628>>, <<120630, 120654>>, <<120656, 120686>>,
      <<120688, 120712>>, <<120714, 120744>>, <<120746, 120770>>,
      <<120772, 120779>>, <<122624, 122633>>, <<122635, 122654>>,
      <<125184, 125251>>, <<127280, 127305>>, <<127312, 127337>>,
      <<127344, 127369>>>>

InRanges(c, ranges) ==
    \E k \in 1..Len(ranges) : ranges[k][1] <= c /\ c <= ranges[k][2]

CaseIgnorable(c) == InRanges(c, CaseIgnorableRanges)

Cased(c) == InRanges(c, CasedRanges)

\* the lower case of the capital sigma at position i of s: final sigma (962)
\* when the nearest character before it that is not case-ignorable is cased
\* and the nearest such character after it, if any, is not; sigma (963)
\* otherwise
FinalSigma(s, i) ==
    LET before == {j \in 1..(i - 1) : ~CaseIgnorable(s[j])}
        after == {j \in (i + 1)..Len(s) : ~CaseIgnorable(s[j])}
        final == /\ before /= {}
                 /\ Cased(s[CHOOSE j \in before : \A k \in before : k <= j])
                 /\ \/ after = {}
                    \/ ~Cased(s[CHOOSE j \in after : \A k \in after : j <= k])
    IN  IF final THEN 962 ELSE 963

\* the characters the character at position i of s becomes in str.lower():
\* A-Z are shifted by 32, capital I with dot above (304) becomes i and a
\* combining dot, a capital sigma depends on its neighbours, a character of
\* a run is shifted as the run says, any other character stays as it is
LowerChar(s, i) ==
    LET c == s[i]
    IN  CASE c < 128 -> <<IF 65 <= c /\ c <= 90 THEN c + 32 ELSE c>>
          [] c = 304 -> <<105, 775>>
          [] c = 931 -> <<FinalSigma(s, i)>>
          [] c >= 128 /\ c /= 304 /\ c /= 931 ->
                 LET hits == {k \in 1..Len(LowerRuns) :
                                 /\ LowerRuns[k][1] <= c
                                 /\ c <= LowerRuns[k][2]
                                 /\ (c - LowerRuns[k][1]) % LowerRuns[k][3] = 0}
                 IN  IF hits = {} THEN <<c>>
                     ELSE <<c + LowerRuns[CHOOSE k \in hits : TRUE][4]>>

\* the lower case of the characters of s at the positions i..j, in order
RECURSIVE LowerRange(_, _, _)
LowerRange(s, i, j) ==
    IF i > j THEN <<>>
    ELSE IF i = j THEN LowerChar(s, i)
    ELSE LowerRange(s, i, (i + j) \div 2) \o LowerRange(s, (i + j) \div 2 + 1, j)

\* str.lower(): the lower case of each character, in order
Lower(s) == LowerRange(s, 1, Len(s))

\* str.find(ch): the first position of ch in s, 0 when s has none
Find(s, ch) ==
    IF \E i \in 1..Len(s) : s[i] = ch
    THEN CHOOSE i \in 1..Len(s) : s[i] = ch /\ \A j \in 1..(i - 1) : s[j] /= ch
    ELSE 0

\* str.rfind(ch): the last position of ch in s, 0 when s has none
RFind(s, ch) ==
    IF \E i \in 1..Len(s) : s[i] = ch
    THEN CHOOSE i \in 1..Len(s) : s[i] = ch /\ \A j \in (i + 1)..Len(s) : s[j] /= ch
    ELSE 0

\* str.endswith(suffix)
EndsWith(s, suffix) ==
    /\ Len(suffix) <= Len(s)
    /\ SubSeq(s, Len(s) - Len(suffix) + 1, Len(s)) = suffix

\* the components PurePath parses a path into: the pieces between the
\* separators, without the empty pieces and without the pieces that are "."
RECURSIVE Parts(_)
Parts(path) ==
    IF path = <<>> THEN <<>>
    ELSE LET i == Find(path, Slash)
             piece == IF i = 0 THEN path ELSE SubSeq(path, 1, i - 1)
             rest == IF i = 0 THEN <<>> ELSE SubSeq(path, i + 1, Len(path))
         IN  (IF piece = <<>> \/ piece = <<Dot>> THEN <<>> ELSE <<piece>>) \o Parts(rest)

\* PurePath.name: the last component of the path, empty when it has none
Name(path) == IF Parts(path) = <<>> THEN <<>> ELSE Parts(path)[Len(Parts(path))]

\* PurePath.suffix: the name from its last dot on, when that dot is neither
\* the first nor the last character of the name
PathSuffix(path) ==
    LET name == Name(path)
        i == RFind(name, Dot)
    IN  IF 1 < i /\ i < Len(name) THEN SubSeq(name, i, Len(name)) ELSE <<>>

\* Path(original_filename).suffix.lower()
Suffix(original_filename) == Lower(PathSuffix(original_filename))

\* ".jpg", ".jpeg", ".png"
DotJpg == <<46, 106, 112, 103>>
DotJpeg == <<46, 106, 112, 101, 103>>
DotPng == <<46, 112, 110, 103>>

\* "a" 256 times and ".png": a name of 260 characters
LongNamePng == [k \in 1..256 |-> 97] \o DotPng

\* "a." and "x" 212 times: a name of 214 characters whose suffix has 213
LongSuffixName == <<97, Dot>> \o [k \in 1..212 |-> 120]
LongFilenames == {LongNamePng, LongSuffixName}

\* "a\udc80.png": a name that holds a lone surrogate
SurrogatePng == <<97, 56448, 46, 112, 110, 103>>

\* f"{file_hash}_{int(datetime.now().timestamp())}{file_extension}": the
\* content stands for its md5 digest
UniqueFilename(file_content, original_filename, timestamp) ==
    <<file_content, timestamp, Suffix(original_filename)>>

\* the characters of hashlib.md5(...).hexdigest()
HashLen == 32

\* the digits of int(datetime.now().timestamp()): ten from 2001 to 2286
TimestampLen == 10

\* len(unique_filename): the digest, "_", the timestamp and the extension
UniqueFilenameLen(filename) == HashLen + 1 + TimestampLen + Len(filename[3])

\* len(str(UPLOAD_DIR / unique_filename)), UPLOAD_DIR being "uploads/xray_images"
FilePathLen(filename) == 19 + 1 + UniqueFilenameLen(filename)

\* the bytes of a character in the encoding of file names: UTF-8, a lone
\* surrogate U+DC80..U+DCFF standing for one byte (surrogateescape)
Utf8Bytes(c) ==
    IF c < 128 \/ (56448 <= c /\ c <= 56575) THEN 1
    ELSE IF c < 2048 THEN 2
    ELSE IF c < 65536 THEN 3
    ELSE 4

\* the bytes of the characters of s at the positions i..j
RECURSIVE Utf8Range(_, _, _)
Utf8Range(s, i, j) ==
    IF i > j THEN 0
    ELSE IF i = j THEN Utf8Bytes(s[i])
    ELSE Utf8Range(s, i, (i + j) \div 2) + Utf8Range(s, (i + j) \div 2 + 1, j)

\* len(os.fsencode(s))
Utf8Len(s) == Utf8Range(s, 1, Len(s))

\* the longest file name the file system takes, in bytes (NAME_MAX)
NameMax == 255

\* what open() and f.write() can do with a name the file system takes: the
\* file is written ("opened"); open() fails and nothing is on disk
\* ("OSError": no permission, the directory gone); open() creates the file
\* and f.write() fails ("WriteOSError": no space, a file size limit)
OsOpenOutcomes == {"opened", "OSError", "WriteOSError"}

\* open(file_path, "wb") and f.write(file_content): "opened", or what went
\* wrong.  The name is
\* encoded first (a lone surrogate outside U+DC80..U+DCFF has no encoding),
\* then refused when it holds a null character, then handed to the file
\* system, which refuses a name of more than NAME_MAX bytes.
Open(filename, os_open) ==
    LET extension == filename[3]
    IN  IF \E k \in DOMAIN extension :
               /\ 55296 <= extension[k] /\ extension[k] <= 57343
               /\ ~(56448 <= extension[k] /\ extension[k] <= 56575)
        THEN "UnicodeEncodeError"
        ELSE IF \E k \in DOMAIN extension : extension[k] = 0
        THEN "ValueError"
        ELSE IF HashLen + 1 + TimestampLen + Utf8Len(extension) > NameMax
        THEN "OSError"
        ELSE os_open

\* what a schema raises instead of returning when a field fails its validation
ValidationError == [error |-> "ValidationError"]

\* a str field of a schema takes no lone surrogate (U+D800..U+DFFF)
HasSurrogate(s) == \E k \in DOMAIN s : 55296 <= s[k] /\ s[k] <= 57343

\* XrayImageCreate(filename=unique_filename, ..., user_id=user_id): the
\* fields, when filename, original_filename, file_path and mime_type keep to
\* their max_length and hold no lone surrogate
XrayImageCreate(file_content, original_filename, user_id, timestamp) ==
    LET unique_filename == UniqueFilename(file_content, original_filename, timestamp)
        mime_type == IF Suffix(original_filename) \in {DotJpg, DotJpeg}
                     THEN "image/jpeg" ELSE "image/png"
    IN  IF /\ UniqueFilenameLen(unique_filename) <= 255
           /\ Len(original_filename) <= 255
           /\ FilePathLen(unique_filename) <= 500
           /\ Len(mime_type) <= 100
           /\ ~HasSurrogate(original_filename)
           /\ ~HasSurrogate(unique_filename[3])
        THEN [filename |-> unique_filename,
              original_filename |-> original_filename,
              file_path |-> unique_filename,
              mime_type |-> mime_type,
              user_id |-> user_id]
        ELSE ValidationError

\* XrayImage(**image_data.model_dump()); upload_date is filled by its
\* default factory, datetime.utcnow
XrayImage(image_data, utcnow) ==
    [filename |-> image_data.filename,
     original_filename |-> image_data.original_filename,
     file_path |-> image_data.file_path,
     mime_type |-> image_data.mime_type,
     upload_date |-> utcnow,
     user_id |-> image_data.user_id]

\* variant: the model_name argument is dropped and the default recorded
DiseaseDetectionCreate_defaultModel(xray_image_id, model_name) ==
    [xray_image_id |-> xray_image_id, model_name |-> Some("CNN_v1.0"),
     model_version |-> Some("1.0")]

\* DiseaseDetectionCreate(xray_image_id=..., model_name=..., model_version="1.0"):
\* the fields, when model_name and model_version keep to their max_length
DiseaseDetectionCreate(xray_image_id, model_name) ==
    IF Len(model_name) <= 100 /\ Len("1.0") <= 50
    THEN [xray_image_id |-> xray_image_id, model_name |-> Some(model_name),
          model_version |-> Some("1.0")]
    ELSE ValidationError

\* variant: the creation stamps processing_completed_at as well
DiseaseDetection_stampsCompleted(detection_data, now, utcnow) ==
    [xray_image_id |-> detection_data.xray_image_id,
     status |-> PENDING,
     detected_disease |-> None,
     confidence_score |-> None,
     is_disease_detected |-> FALSE,
     processing_started_at |-> Some(now),
     processing_completed_at |-> Some(now),
     processing_duration_seconds |-> None,
     model_name |-> detection_data.model_name,
     model_version |-> detection_data.model_version,
     detection_details |-> <<>>,
     error_message |-> None,
     created_at |-> utcnow,
     updated_at |-> utcnow]

\* DiseaseDetection(**detection_data.model_dump(), status=PENDING,
\*                  processing_started_at=datetime.now()); created_at and
\* updated_at are filled by their default factory, datetime.utcnow
DiseaseDetection(detection_data, now, utcnow) ==
    [xray_image_id |-> detection_data.xray_image_id,
     status |-> PENDING,
     detected_disease |-> None,
     confidence_score |-> None,
     is_disease_detected |-> FALSE,
     processing_started_at |-> Some(now),
     processing_completed_at |-> None,
     processing_duration_seconds |-> None,
     model_name |-> detection_data.model_name,
     model_version |-> detection_data.model_version,
     detection_details |-> <<>>,
     error_message |-> None,
     created_at |-> utcnow,
     updated_at |-> utcnow]

(***************************************************************************)
(* The simulated classifier.  Confidence is in units of 0.0001.            *)
(***************************************************************************)
\* round(random.uniform(lo, hi), 4): every 4-decimal value of [lo, hi]
UniformRound4(lo, hi) == lo..hi

\* variant: one pair of bounds for every label
ConfidenceBounds_oneRange(detected_disease) == <<6000, 9000>>

\* the bounds random.uniform is given for the confidence of a label
ConfidenceBounds(detected_disease) ==
    IF detected_disease = NORMAL THEN <<7000, 9500>> ELSE <<6000, 9000>>

\* the range the confidence of a label is drawn from
ConfidenceRange(detected_disease) ==
    UniformRound4(ConfidenceBounds(detected_disease)[1], ConfidenceBounds(detected_disease)[2])

\* round(random.uniform(lo, hi), 3): every 3-decimal value of [lo, hi],
\* in units of 0.001
UniformRound3(lo, hi) == lo..hi

\* the bounds random.uniform is given for image_quality_score
ImageQualityBounds == <<800, 1000>>

\* the range image_quality_score is drawn from
ImageQualityScores == UniformRound3(ImageQualityBounds[1], ImageQualityBounds[2])

\* the details dictionary
Details(detected_disease, image_quality_score) ==
    [regions_analyzed |-> <<"left_lung", "right_lung", "heart_area">>,
     abnormal_regions |-> IF detected_disease = NORMAL THEN <<>> ELSE <<"lower_left_lobe">>,
     processing_algorithm |-> "Deep CNN with ResNet architecture",
     image_quality_score |-> image_quality_score]

\* {"disease": ..., "confidence": ..., "details": ...}
AiResult(detected_disease, confidence, image_quality_score) ==
    [disease |-> detected_disease, confidence |-> confidence,
     details |-> Details(detected_disease, image_quality_score)]

\* the results _simulate_ai_detection can return once random.choices has
\* drawn detected_disease
SimulateAiDetection(detected_disease) ==
    {AiResult(detected_disease, c, q) : c \in ConfidenceRange(detected_disease),
                                        q \in ImageQualityScores}

\* the two ends of the interval random.uniform draws from
Ends(bounds) == {bounds[1], bounds[2]}

\* the draws of the random source the model is explored with: a healthy and
\* a diseased result, each at one end of its confidence range
SampledResults == {AiResult(NORMAL, 9500, 1000), AiResult(PNEUMONIA, 6000, 800)}

\* the draws the classifier is explored with on its own: for every label
\* both ends of its confidence range, each with both ends of the quality range
ClassifierResults ==
    UNION { {AiResult(d, c, q) : c \in Ends(ConfidenceBounds(d)), q \in Ends(ImageQualityBounds)} :
            d \in DiseaseType }

\* variant: the flag is computed with the comparison inverted
DiseaseDetectionUpdate_invertedFlag(detection_result, now) ==
    [status |-> COMPLETED,
     detected_disease |-> Some(detection_result.disease),
     confidence_score |-> Some(detection_result.confidence),
     is_disease_detected |-> (detection_result.disease = NORMAL),
     processing_completed_at |-> Some(now),
     processing_duration_seconds |-> Some(2),
     detection_details |-> detection_result.details]

\* DiseaseDetectionUpdate(status=COMPLETED, ...).model_dump(exclude_unset=True)
DiseaseDetectionUpdate(detection_result, now) ==
    [status |-> COMPLETED,
     detected_disease |-> Some(detection_result.disease),
     confidence_score |-> Some(detection_result.confidence),
     is_disease_detected |-> (detection_result.disease /= NORMAL),
     processing_completed_at |-> Some(now),
     processing_duration_seconds |-> Some(2),
     detection_details |-> detection_result.details]

\* variant: the status is committed on its own, ahead of the result fields
ApplyUpdate_statusFirst(detection, update_data, now) ==
    [detection EXCEPT !.status = update_data.status, !.updated_at = now]

\* for field, value in update_data.items(): setattr(detection, field, value);
\* detection.updated_at = datetime.now()
ApplyUpdate(detection, update_data, now) ==
    [f \in DOMAIN detection |->
        IF f = "updated_at" THEN now
        ELSE IF f \in DOMAIN update_data THEN update_data[f]
        ELSE detection[f]]

\* variant: the move to PROCESSING stamps processing_started_at
SetProcessing_restamps(detection) ==
    [detection EXCEPT !.status = PROCESSING, !.processing_started_at = Some(Now)]

\* detection.status = DetectionStatus.PROCESSING
SetProcessing(detection) == [detection EXCEPT !.status = PROCESSING]

\* variant: the failure is recorded without its message
SetFailed_noMessage(detection, error_message, now) ==
    [detection EXCEPT !.status = FAILED,
                      !.processing_completed_at = Some(now),
                      !.updated_at = now]

\* the four assignments of mark_detection_failed
SetFailed(detection, error_message, now) ==
    [detection EXCEPT !.status = FAILED,
                      !.error_message = Some(error_message),
                      !.processing_completed_at = Some(now),
                      !.updated_at = now]

(***************************************************************************)
(* The store.                                                              *)
(***************************************************************************)
\* session.get(Model, id)
Get(table, id) == IF id \in DOMAIN table THEN Some(table[id]) ELSE None

\* the id the database gives the next inserted row
NextId(table) == IF DOMAIN table = {} THEN 1
                 ELSE (CHOOSE m \in DOMAIN table : \A k \in DOMAIN table : k <= m) + 1

\* session.add(row); session.commit() of a new row
Insert(table, row) == [k \in DOMAIN table \cup {NextId(table)} |->
                          IF k \in DOMAIN table THEN table[k] ELSE row]

\* Field(foreign_key="users.id"), Field(foreign_key="xray_images.id") at the
\* commit of a new row: a database that enforces its foreign keys takes the
\* row when the parent row exists, one that does not enforce them takes any
ForeignKeyHolds(parent, id) == foreign_keys => id \in DOMAIN parent

\* what a call left behind: error is "None" when it returned, "suspended" when it awaits
Outcome(op, id, error) == [op |-> op, id |-> id, error |-> error]

SleepingTotal == LET S == DOMAIN sleeping
                     Sum[T \in SUBSET S] ==
                         IF T = {} THEN 0
                         ELSE LET x == CHOOSE y \in T : TRUE IN sleeping[x] + Sum[T \ {x}]
                 IN Sum[S]

Init ==
    /\ users = <<>>
    /\ images = <<>>
    /\ blobs = {}
    /\ detections = <<>>
    /\ sleeping = <<>>
    /\ tasks = <<>>
    /\ clock = 0
    /\ utc_offset \in UtcOffsets
    /\ foreign_keys \in BOOLEAN
    /\ ret = Outcome("none", 0, "None")

\* time passes between two calls
Tick ==
    /\ clock < MaxClock
    /\ clock' = clock + 1
    /\ UNCHANGED <<users, images, blobs, detections, sleeping, ret, tasks, utc_offset, foreign_keys>>

\* UserService.create_user
CreateUser ==
    /\ Cardinality(DOMAIN users) < MaxUsers
    /\ users' = Insert(users, User("Dr. X", "x@h.com", None, UtcNow))
    /\ ret' = Outcome("create_user", NextId(users), "None")
    /\ UNCHANGED <<images, blobs, detections, sleeping, clock, tasks, utc_offset, foreign_keys>>

\* ImageService.save_uploaded_image: the file is written, then the schema
\* is validated, then the row is committed; what raises on the way leaves
\* behind what was done before it
SaveUploadedImage(file_content, original_filename, user_id, os_open) ==
    LET unique_filename == UniqueFilename(file_content, original_filename, Timestamp)
        opened == Open(unique_filename, os_open)
        image_data == XrayImageCreate(file_content, original_filename, user_id, Timestamp)
    IN  /\ Cardinality(DOMAIN images) < MaxImages
        /\ Cardinality(blobs) < MaxImages
        /\ IF opened = "WriteOSError"
           THEN /\ blobs' = blobs \cup {unique_filename}
                /\ images' = images
                /\ ret' = Outcome("save_uploaded_image", 0, "OSError")
           ELSE IF opened /= "opened"
           THEN /\ ret' = Outcome("save_uploaded_image", 0, opened)
                /\ UNCHANGED <<images, blobs>>
           ELSE /\ blobs' = blobs \cup {unique_filename}
                /\ IF image_data = ValidationError
                   THEN /\ images' = images
                        /\ ret' = Outcome("save_uploaded_image", 0, "ValidationError")
                   ELSE IF ForeignKeyHolds(users, user_id)
                   THEN /\ images' = Insert(images, XrayImage(image_data, UtcNow))
                        /\ ret' = Outcome("save_uploaded_image", NextId(images), "None")
                   ELSE /\ images' = images
                        /\ ret' = Outcome("save_uploaded_image", 0, "IntegrityError")
        /\ UNCHANGED <<users, detections, sleeping, clock, tasks, utc_offset, foreign_keys>>

\* DetectionService.start_detection: the schema is validated, then the row
\* is committed; the image is not looked up
StartDetection(xray_image_id, model_name) ==
    LET detection_data == DiseaseDetectionCreate(xray_image_id, model_name)
    IN  /\ IF detection_data = ValidationError
           THEN /\ detections' = detections
                /\ ret' = Outcome("start_detection", 0, "ValidationError")
           ELSE IF ForeignKeyHolds(images, xray_image_id)
           THEN /\ detections' = Insert(detections, DiseaseDetection(detection_data, Now, UtcNow))
                /\ ret' = Outcome("start_detection", NextId(detections), "None")
           ELSE /\ detections' = detections
                /\ ret' = Outcome("start_detection", 0, "IntegrityError")
        /\ UNCHANGED <<users, images, blobs, sleeping, clock, tasks, utc_offset, foreign_keys>>

\* variant: every detection of the same image is moved to PROCESSING
ProcessDetectionBegin_wholeImage(detection_id) ==
    /\ SleepingTotal < MaxSleeping
    /\ IF Get(detections, detection_id) = None
       THEN /\ ret' = Outcome("process_detection", detection_id, "ValueError")
            /\ UNCHANGED <<detections, sleeping>>
       ELSE /\ detections' = [k \in DOMAIN detections |->
                                IF detections[k].xray_image_id = detections[detection_id].xray_image_id
                                THEN SetProcessing(detections[k]) ELSE detections[k]]
            /\ sleeping' = [k \in DOMAIN sleeping \cup {detection_id} |->
                               IF k \in DOMAIN sleeping
                               THEN sleeping[k] + (IF k = detection_id THEN 1 ELSE 0)
                               ELSE 1]
            /\ ret' = Outcome("process_detection", detection_id, "suspended")
    /\ UNCHANGED <<users, images, blobs, clock, tasks, utc_offset, foreign_keys>>

\* DetectionService.process_detection up to `await asyncio.sleep(2)`
ProcessDetectionBegin(detection_id) ==
    /\ SleepingTotal < MaxSleeping
    /\ IF Get(detections, detection_id) = None
       THEN /\ ret' = Outcome("process_detection", detection_id, "ValueError")
            /\ UNCHANGED <<detections, sleeping>>
       ELSE /\ detections' = [detections EXCEPT ![detection_id] = SetProcessing(@)]
            /\ sleeping' = [k \in DOMAIN sleeping \cup {detection_id} |->
                               IF k \in DOMAIN sleeping
                               THEN sleeping[k] + (IF k = detection_id THEN 1 ELSE 0)
                               ELSE 1]
            /\ ret' = Outcome("process_detection", detection_id, "suspended")
    /\ UNCHANGED <<users, images, blobs, clock, tasks, utc_offset, foreign_keys>>

\* DetectionService.process_detection from the wake-up to its return
ProcessDetectionFinish(detection_id, detection_result) ==
    /\ detection_id \in DOMAIN sleeping
    /\ sleeping[detection_id] > 0
    /\ sleeping' = [sleeping EXCEPT ![detection_id] = @ - 1]
    /\ IF Get(detections, detection_id) = None
       THEN /\ ret' = Outcome("process_detection", detection_id, "ValueError")
            /\ UNCHANGED detections
       ELSE /\ detections' = [detections EXCEPT ![detection_id] =
                                ApplyUpdate(@, DiseaseDetectionUpdate(detection_result, Now), Now)]
            /\ ret' = Outcome("process_detection", detection_id, "None")
    /\ UNCHANGED <<users, images, blobs, clock, tasks, utc_offset, foreign_keys>>

\* variant: an unknown id is passed over in silence instead of raising
MarkDetectionFailed_silent(detection_id, error_message) ==
    /\ IF Get(detections, detection_id) = None
       THEN /\ ret' = Outcome("mark_detection_failed", detection_id, "None")
            /\ UNCHANGED detections
       ELSE /\ detections' = [detections EXCEPT ![detection_id] =
                                SetFailed(@, error_message, Now)]
            /\ ret' = Outcome("mark_detection_failed", detection_id, "None")
    /\ UNCHANGED <<users, images, blobs, sleeping, clock, tasks, utc_offset, foreign_keys>>

\* DetectionService.mark_detection_failed
MarkDetectionFailed(detection_id, error_message) ==
    /\ IF Get(detections, detection_id) = None
       THEN /\ ret' = Outcome("mark_detection_failed", detection_id, "ValueError")
            /\ UNCHANGED detections
       ELSE /\ detections' = [detections EXCEPT ![detection_id] =
                                SetFailed(@, error_message, Now)]
            /\ ret' = Outcome("mark_detection_failed", detection_id, "None")
    /\ UNCHANGED <<users, images, blobs, sleeping, clock, tasks, utc_offset, foreign_keys>>

\* session.delete(row); session.commit()
Delete(table, id) == [k \in DOMAIN table \ {id} |-> table[k]]

\* XrayImage.detections: the rows the session loads and detaches from an
\* image it deletes, by setting their xray_image_id to NULL
Children(image_id) ==
    {d \in DOMAIN detections : detections[d].xray_image_id = image_id}

\* DiseaseDetection.xray_image_id is declared int, a column that is NOT NULL
NotNullHolds(rows) == rows = {}

\* what os.remove can do: remove the file or find it gone already
\* (FileNotFoundError), or fail on a file it cannot remove (PermissionError,
\* IsADirectoryError and the other OSErrors)
OsRemoveOutcomes == {"removed", "OSError"}

\* the files under UPLOAD_DIR after os.remove(path)
OsRemove(files, path, outcome) == IF outcome = "OSError" THEN files ELSE files \ {path}

\* what a call returned
Returned(op, id, value) == [op |-> op, id |-> id, error |-> "None", value |-> value]

\* variant: an unknown id raises instead of returning False
DeleteImage_raisesOnMissing(image_id, os_remove) ==
    /\ IF Get(images, image_id) = None
       THEN /\ ret' = Outcome("delete_image", image_id, "ValueError")
            /\ UNCHANGED <<images, blobs>>
       ELSE /\ blobs' = OsRemove(blobs, images[image_id].file_path, os_remove)
            /\ IF NotNullHolds(Children(image_id))
               THEN /\ images' = Delete(images, image_id)
                    /\ ret' = Returned("delete_image", image_id, TRUE)
               ELSE /\ images' = images
                    /\ ret' = Outcome("delete_image", image_id, "IntegrityError")
    /\ UNCHANGED <<users, detections, sleeping, tasks, clock, utc_offset, foreign_keys>>

\* ImageService.delete_image
DeleteImage(image_id, os_remove) ==
    /\ IF Get(images, image_id) = None
       THEN /\ ret' = Returned("delete_image", image_id, FALSE)
            /\ UNCHANGED <<images, blobs>>
       ELSE \* os.remove(image.file_path), whatever it raises is logged and passed over
            /\ blobs' = OsRemove(blobs, images[image_id].file_path, os_remove)
            /\ IF NotNullHolds(Children(image_id))
               THEN /\ images' = Delete(images, image_id)
                    /\ ret' = Returned("delete_image", image_id, TRUE)
               ELSE /\ images' = images
                    /\ ret' = Outcome("delete_image", image_id, "IntegrityError")
    /\ UNCHANGED <<users, detections, sleeping, tasks, clock, utc_offset, foreign_keys>>

Next ==
    \/ Tick
    \/ CreateUser
    \/ \E c \in Contents, f \in Filenames \cup LongFilenames \cup {SurrogatePng},
          u \in UserIdArgs, o \in OsOpenOutcomes :
           SaveUploadedImage(c, f, u, o)
    \/ \E i \in ImageIdArgs, m \in ModelNames :
           /\ Cardinality(DOMAIN detections) < MaxDetections
           /\ StartDetection(i, m)
    \/ \E d \in DetectionIdArgs : ProcessDetectionBegin(d)
    \/ \E d \in DetectionIdArgs, r \in SampledResults : ProcessDetectionFinish(d, r)
    \/ \E d \in DetectionIdArgs, e \in ErrorMessages : MarkDetectionFailed(d, e)
    \/ \E i \in ImageIdArgs, o \in OsRemoveOutcomes : DeleteImage(i, o)

Spec == Init /\ [][Next]_vars

(***************************************************************************)
(* The detection lifecycle on its own: the database already holds the user *)
(* and the image that every test sets up before it starts a detection      *)
(* (create_user, then save_uploaded_image), and the calls are those of     *)
(* DetectionService.  The database enforces its foreign keys.              *)
(***************************************************************************)
InitLifecycle ==
    /\ users = Insert(<<>>, User("Dr. X", "x@h.com", None, 0))
    /\ images = Insert(<<>>, XrayImage(XrayImageCreate("bytes1", APng, 1, 0), 0))
    /\ blobs = {UniqueFilename("bytes1", APng, 0)}
    /\ detections = <<>>
    /\ sleeping = <<>>
    /\ tasks = <<>>
    /\ clock = 0
    /\ utc_offset \in UtcOffsets
    /\ foreign_keys = TRUE
    /\ ret = Outcome("save_uploaded_image", 1, "None")

NextLifecycle ==
    \/ Tick
    \/ \E i \in ImageIdArgs, m \in ModelNames :
           /\ Cardinality(DOMAIN detections) < MaxDetections
           /\ StartDetection(i, m)
    \/ \E d \in DetectionIdArgs : ProcessDetectionBegin(d)
    \/ \E d \in DetectionIdArgs, r \in SampledResults : ProcessDetectionFinish(d, r)
    \/ \E d \in DetectionIdArgs, e \in ErrorMessages : MarkDetectionFailed(d, e)

SpecLifecycle == InitLifecycle /\ [][NextLifecycle]_vars

(***************************************************************************)
(* Properties of the detection lifecycle.                                  *)
(***************************************************************************)
Terminal == {COMPLETED, FAILED}

\* the transitions of the documented state machine
AllowedTransitions ==
    {<<PENDING, PROCESSING>>, <<PROCESSING, COMPLETED>>, <<PROCESSING, FAILED>>}

\* the rows a step inserted
Created == DOMAIN detections' \ DOMAIN detections

\* C1: once a detection is COMPLETED or FAILED, no later step changes its
\* status, detected_disease, confidence_score or error_message.
C1_TerminalImmutability ==
    [][\A d \in DOMAIN detections :
          detections[d].status \in Terminal =>
              /\ detections'[d].status = detections[d].status
              /\ detections'[d].detected_disease = detections[d].detected_disease
              /\ detections'[d].confidence_score = detections[d].confidence_score
              /\ detections'[d].error_message = detections[d].error_message]_vars

\* C2: detected_disease and confidence_score are set exactly when the status
\* is COMPLETED.
C2_ResultsIffCompleted ==
    \A d \in DOMAIN detections :
        /\ detections[d].status = COMPLETED =>
               IsSet(detections[d].detected_disease) /\ IsSet(detections[d].confidence_score)
        /\ detections[d].status /= COMPLETED =>
               ~IsSet(detections[d].detected_disease) /\ ~IsSet(detections[d].confidence_score)

\* C3: error_message is set exactly when the status is FAILED.
C3_ErrorIffFailed ==
    \A d \in DOMAIN detections :
        IsSet(detections[d].error_message) <=> (detections[d].status = FAILED)

\* C4: every COMPLETED detection has is_disease_detected equal to
\* (detected_disease != NORMAL).
C4_FlagConsistent ==
    \A d \in DOMAIN detections :
        detections[d].status = COMPLETED =>
            detections[d].is_disease_detected = (detections[d].detected_disease /= Some(NORMAL))

\* process_detection has just returned a COMPLETED detection carrying a disease label
C4_Witness ==
    \E d \in DOMAIN detections :
        /\ detections[d].status = COMPLETED
        /\ detections[d].detected_disease = Some(PNEUMONIA)
        /\ detections[d].is_disease_detected
        /\ ret = Outcome("process_detection", d, "None")

\* C5: is_disease_detected is false while the status is PENDING, PROCESSING
\* or FAILED.
C5_FlagOnlyWhenCompleted ==
    \A d \in DOMAIN detections :
        detections[d].status \in {PENDING, PROCESSING, FAILED} =>
            ~detections[d].is_disease_detected

\* C6: a PENDING detection has detected_disease, confidence_score and
\* processing_completed_at unset.
C6_PendingUnset ==
    \A d \in DOMAIN detections :
        detections[d].status = PENDING =>
            /\ detections[d].detected_disease = None
            /\ detections[d].confidence_score = None
            /\ detections[d].processing_completed_at = None

\* a detection still PENDING after calls on an unknown id were refused
C6_Witness ==
    \E d \in DOMAIN detections :
        /\ detections[d].status = PENDING
        /\ ret.op \in {"process_detection", "mark_detection_failed"}
        /\ ret.error = "ValueError"

\* C7: processing_completed_at is set exactly when the status is COMPLETED
\* or FAILED.
C7_CompletedAtIffTerminal ==
    \A d \in DOMAIN detections :
        IsSet(detections[d].processing_completed_at) <=> (detections[d].status \in Terminal)

\* C8: every change of status is PENDING->PROCESSING, PROCESSING->COMPLETED
\* or PROCESSING->FAILED, and process_detection on a detection that is not
\* PENDING raises and leaves the detection as it was.
C8_OnlyAllowedTransitions ==
    [][\A d \in DOMAIN detections :
          /\ detections'[d].status /= detections[d].status =>
                 <<detections[d].status, detections'[d].status>> \in AllowedTransitions
          /\ (ProcessDetectionBegin(d) /\ detections[d].status /= PENDING) =>
                 /\ ret'.error \notin {"None", "suspended"}
                 /\ detections'[d] = detections[d]]_vars

\* C9 as stated: a created detection is PENDING with processing_started_at
\* unset, and processing_started_at changes only in the step of
\* process_detection that moves the detection to PROCESSING.
C9_StampedByProcess ==
    [][/\ \A d \in Created :
              /\ detections'[d].status = PENDING
              /\ detections'[d].processing_started_at = None
       /\ \A d \in DOMAIN detections :
              detections'[d].processing_started_at /= detections[d].processing_started_at =>
                  ProcessDetectionBegin(d) /\ detections'[d].status = PROCESSING]_vars

\* C9 amended: a created detection is PENDING with processing_started_at
\* stamped with the time of the start_detection call, and no later step,
\* process_detection included, changes processing_started_at.
C9_StampedByStart ==
    [][/\ \A d \in Created :
              /\ detections'[d].status = PENDING
              /\ detections'[d].processing_started_at = Some(Now)
       /\ \A d \in DOMAIN detections :
              detections'[d].processing_started_at = detections[d].processing_started_at]_vars

\* a detection that process_detection moved to PROCESSING later than it was started
C9_Witness ==
    \E d \in DOMAIN detections :
        /\ detections[d].status = PROCESSING
        /\ ret = Outcome("process_detection", d, "suspended")
        /\ detections[d].processing_started_at = Some(utc_offset)
        /\ clock > 0

(***************************************************************************)
(* start_detection on its own: called with any image id and any model     *)
(* name on a table that already holds detections, some of them being       *)
(* processed, on a database that enforces its foreign keys and on one that *)
(* does not.                                                               *)
(***************************************************************************)
\* a model name of 100 characters, the longest DiseaseDetectionCreate accepts
HundredModelName == Ten \o Ten \o Ten \o Ten \o Ten \o Ten \o Ten \o Ten \o Ten \o Ten
StartModelNames == ModelNames \cup {HundredModelName}

NextStart ==
    \/ Tick
    \/ \E i \in ImageIdArgs, m \in StartModelNames :
           /\ Cardinality(DOMAIN detections) < MaxStarts
           /\ StartDetection(i, m)
    \/ \E d \in DetectionIdArgs : ProcessDetectionBegin(d)

\* the user and the image of the lifecycle tests, on either kind of database
InitStart ==
    /\ users = Insert(<<>>, User("Dr. X", "x@h.com", None, 0))
    /\ images = Insert(<<>>, XrayImage(XrayImageCreate("bytes1", APng, 1, 0), 0))
    /\ blobs = {UniqueFilename("bytes1", APng, 0)}
    /\ detections = <<>>
    /\ sleeping = <<>>
    /\ tasks = <<>>
    /\ clock = 0
    /\ utc_offset \in UtcOffsets
    /\ foreign_keys \in BOOLEAN
    /\ ret = Outcome("save_uploaded_image", 1, "None")

SpecStart == InitStart /\ [][NextStart]_vars

\* what C10 says a call start_detection(i, m) has done when it is over
StartedAsAsked(i, m) ==
    /\ ret'.op = "start_detection"
    /\ ret'.error = "None"
    /\ ret'.id \notin DOMAIN detections
    /\ Created = {ret'.id}
    /\ \A d \in DOMAIN detections : detections'[d] = detections[d]
    /\ detections'[ret'.id].xray_image_id = i
    /\ detections'[ret'.id].status = PENDING
    /\ detections'[ret'.id].model_name = Some(m)
    /\ detections'[ret'.id].model_version = Some("1.0")
    /\ IsSet(detections'[ret'.id].processing_started_at)

C11_StartUnknownImage ==
    [][\A i \in ImageIdArgs, m \in StartModelNames :
          (StartDetection(i, m) /\ i \notin DOMAIN images) =>
              /\ ret'.op = "start_detection"
              /\ ret'.error = "ValueError"
              /\ detections' = detections]_vars

\* C12: process_detection and mark_detection_failed on an id that has no row
\* raise the not-found ValueError and leave every stored detection as it was.
C12_UnknownDetection ==
    [][\A d \in DetectionIdArgs \ DOMAIN detections :
          /\ ProcessDetectionBegin(d) =>
                 /\ ret' = Outcome("process_detection", d, "ValueError")
                 /\ detections' = detections
                 /\ sleeping' = sleeping
          /\ \A e \in ErrorMessages :
                 MarkDetectionFailed(d, e) =>
                     /\ ret' = Outcome("mark_detection_failed", d, "ValueError")
                     /\ detections' = detections]_vars

\* mark_detection_failed was refused for an unknown id while another detection is being processed
C12_Witness ==
    /\ ret.op = "mark_detection_failed"
    /\ ret.error = "ValueError"
    /\ ret.id \notin DOMAIN detections
    /\ \E d \in DOMAIN detections : detections[d].status = PROCESSING

\* C13: mark_detection_failed(id, msg) on a detection that was started and
\* never processed returns it FAILED with error_message = msg,
\* processing_completed_at set, detected_disease and confidence_score unset.
C13_FailFromPending ==
    [][\A d \in DOMAIN detections, e \in ErrorMessages :
          (MarkDetectionFailed(d, e) /\ detections[d].status = PENDING) =>
              /\ ret' = Outcome("mark_detection_failed", d, "None")
              /\ detections'[d].status = FAILED
              /\ detections'[d].error_message = Some(e)
              /\ detections'[d].processing_completed_at = Some(Now)
              /\ detections'[d].detected_disease = None
              /\ detections'[d].confidence_score = None]_vars

\* a detection that no process_detection ever touched has been marked failed
C13_Witness ==
    \E d \in DOMAIN detections :
        /\ d \notin DOMAIN sleeping
        /\ ret = Outcome("mark_detection_failed", d, "None")
        /\ detections[d].status = FAILED
        /\ detections[d].error_message = Some("timeout")

\* C14: mark_detection_failed on a detection that is already FAILED leaves
\* its status, error_message and processing_completed_at as they were.
C14_FailedIdempotent ==
    [][\A d \in DOMAIN detections, e \in ErrorMessages :
          (MarkDetectionFailed(d, e) /\ detections[d].status = FAILED) =>
              /\ detections'[d].status = detections[d].status
              /\ detections'[d].error_message = detections[d].error_message
              /\ detections'[d].processing_completed_at =
                     detections[d].processing_completed_at]_vars

(***************************************************************************)
(* The upload workflow of the detection page: handle_upload stores the     *)
(* file, starts a detection and hands process_detection_async to the event *)
(* loop as a task nobody keeps a handle on.                                *)
(***************************************************************************)
\* "c.gif", and ".png": a name that is nothing but the accepted ending
CGif == <<99, 46, 103, 105, 102>>
UploadFilenames == {APng, CGif, DotPng, SurrogatePng}
UploadContents == Contents \cup {"huge"}
UiOutcomes == {"shown", "RuntimeError"}

\* the upload limit, 10 * 1024 * 1024 bytes
MaxUploadBytes == 10485760

\* len(content_bytes)
ContentLength(file_content) == IF file_content = "huge" THEN MaxUploadBytes + 1 ELSE 6

\* e.name.lower().endswith((".jpg", ".jpeg", ".png"))
SupportedFormat(name) == \E ending \in {DotJpg, DotJpeg, DotPng} : EndsWith(Lower(name), ending)

\* the default of start_detection's model_name parameter
DefaultModelName == "CNN_v1.0"

\* a task and the point its coroutine has reached
Task(detection_id, at) == [detection_id |-> detection_id, at |-> at]

\* the ui.notify call of handle_upload that raises, when one does: the one
\* at its start, the one after the save, the one after start_detection
UploadUiOutcomes == {"shown", "start", "uploaded", "detecting"}

\* handle_upload, from the upload event to its return.  It is a plain
\* function: no other handler or task runs before it returns.  Whatever
\* raises inside it is logged and shown, and what was stored before stays.
HandleUpload(file_content, name, user_id, os_open, ui) ==
    LET unique_filename == UniqueFilename(file_content, name, Timestamp)
        opened == Open(unique_filename, os_open)
        image_data == XrayImageCreate(file_content, name, user_id, Timestamp)
        detection_data == DiseaseDetectionCreate(NextId(images), DefaultModelName)
    IN  /\ Cardinality(DOMAIN images) < MaxUploads
        /\ IF ui = "start"
           THEN /\ ret' = Outcome("handle_upload", 0, "RuntimeError")
                /\ UNCHANGED <<images, blobs, detections, tasks>>
           ELSE IF ~SupportedFormat(name)
           THEN /\ ret' = Outcome("handle_upload", 0, "unsupported format")
                /\ UNCHANGED <<images, blobs, detections, tasks>>
           ELSE IF ContentLength(file_content) > MaxUploadBytes
           THEN /\ ret' = Outcome("handle_upload", 0, "too large")
                /\ UNCHANGED <<images, blobs, detections, tasks>>
           ELSE IF opened = "WriteOSError"
           THEN \* save_uploaded_image raises at f.write(), the file is there
                /\ blobs' = blobs \cup {unique_filename}
                /\ ret' = Outcome("handle_upload", 0, "OSError")
                /\ UNCHANGED <<images, detections, tasks>>
           ELSE IF opened /= "opened"
           THEN \* save_uploaded_image raises at open()
                /\ ret' = Outcome("handle_upload", 0, opened)
                /\ UNCHANGED <<images, blobs, detections, tasks>>
           ELSE /\ blobs' = blobs \cup {unique_filename}
                /\ IF image_data = ValidationError
                   THEN /\ ret' = Outcome("handle_upload", 0, "ValidationError")
                        /\ UNCHANGED <<images, detections, tasks>>
                   ELSE IF ~ForeignKeyHolds(users, user_id)
                   THEN /\ ret' = Outcome("handle_upload", 0, "IntegrityError")
                        /\ UNCHANGED <<images, detections, tasks>>
                   ELSE /\ images' = Insert(images, XrayImage(image_data, UtcNow))
                        /\ IF ui = "uploaded"
                           THEN /\ ret' = Outcome("handle_upload", 0, "RuntimeError")
                                /\ UNCHANGED <<detections, tasks>>
                           ELSE \* start_detection(xray_image.id)
                                /\ detections' = Insert(detections,
                                       DiseaseDetection(detection_data, Now, UtcNow))
                                /\ IF ui = "detecting"
                                   THEN /\ ret' = Outcome("handle_upload", NextId(detections), "RuntimeError")
                                        /\ tasks' = tasks
                                   ELSE /\ tasks' = Insert(tasks, Task(NextId(detections), "created"))
                                        /\ ret' = Outcome("handle_upload", NextId(detections), "None")
        /\ UNCHANGED <<users, sleeping, clock, utc_offset, foreign_keys>>

\* process_detection_async from its start to `await asyncio.sleep(2)`
TaskBegin(t) ==
    /\ t \in DOMAIN tasks
    /\ tasks[t].at = "created"
    /\ IF Get(detections, tasks[t].detection_id) = None
       THEN \* process_detection raises, and so does mark_detection_failed in the handler
            /\ tasks' = [tasks EXCEPT ![t].at = "raised"]
            /\ ret' = Outcome("process_detection_async", tasks[t].detection_id, "ValueError")
            /\ UNCHANGED detections
       ELSE /\ detections' = [detections EXCEPT ![tasks[t].detection_id] = SetProcessing(@)]
            /\ tasks' = [tasks EXCEPT ![t].at = "sleep"]
            /\ ret' = Outcome("process_detection_async", tasks[t].detection_id, "suspended")
    /\ UNCHANGED <<users, images, blobs, sleeping, clock, utc_offset, foreign_keys>>

\* process_detection_async from the wake-up to its end: process_detection
\* commits the result, then ui.notify / ui.navigate.to either work or raise
\* (ui) into the handler, which calls mark_detection_failed and notifies
\* again; when that notification works the task ends without exception,
\* when it raises too (handler_ui) the task ends with its exception
TaskWake(t, detection_result, ui, handler_ui) ==
    /\ t \in DOMAIN tasks
    /\ tasks[t].at = "sleep"
    /\ IF Get(detections, tasks[t].detection_id) = None
       THEN /\ tasks' = [tasks EXCEPT ![t].at = "raised"]
            /\ ret' = Outcome("process_detection_async", tasks[t].detection_id, "ValueError")
            /\ UNCHANGED detections
       ELSE IF ui = "shown"
       THEN /\ detections' = [detections EXCEPT ![tasks[t].detection_id] =
                                ApplyUpdate(@, DiseaseDetectionUpdate(detection_result, Now), Now)]
            /\ tasks' = [tasks EXCEPT ![t].at = "returned"]
            /\ ret' = Outcome("process_detection_async", tasks[t].detection_id, "None")
       ELSE /\ detections' = [detections EXCEPT ![tasks[t].detection_id] =
                                SetFailed(ApplyUpdate(@, DiseaseDetectionUpdate(detection_result, Now), Now),
                                          ui, Now)]
            /\ IF handler_ui = "shown"
               THEN /\ tasks' = [tasks EXCEPT ![t].at = "returned"]
                    /\ ret' = Outcome("process_detection_async", tasks[t].detection_id, "None")
               ELSE /\ tasks' = [tasks EXCEPT ![t].at = "raised"]
                    /\ ret' = Outcome("process_detection_async", tasks[t].detection_id, handler_ui)
    /\ UNCHANGED <<users, images, blobs, sleeping, clock, utc_offset, foreign_keys>>

\* the event loop cancels the task (it is stopped, or the task it holds only
\* weakly is dropped): CancelledError is not an Exception, the handler of
\* process_detection_async does not run
TaskCancel(t) ==
    /\ t \in DOMAIN tasks
    /\ tasks[t].at \in {"created", "sleep"}
    /\ tasks' = [tasks EXCEPT ![t].at = "cancelled"]
    /\ ret' = Outcome("process_detection_async", tasks[t].detection_id, "CancelledError")
    /\ UNCHANGED <<users, images, blobs, detections, sleeping, clock, utc_offset, foreign_keys>>

\* the page is open for a user that exists; the database enforces its
\* foreign keys
InitWorkflow ==
    /\ users = Insert(<<>>, User("Dr. X", "x@h.com", None, 0))
    /\ images = <<>>
    /\ blobs = {}
    /\ detections = <<>>
    /\ sleeping = <<>>
    /\ tasks = <<>>
    /\ clock = 0
    /\ utc_offset \in UtcOffsets
    /\ foreign_keys = TRUE
    /\ ret = Outcome("create_user", 1, "None")

TaskIds == 1..MaxUploads

NextWorkflow ==
    \/ Tick
    \/ \E c \in UploadContents, f \in UploadFilenames, u \in DOMAIN users,
          o \in OsOpenOutcomes, ui \in UploadUiOutcomes : HandleUpload(c, f, u, o, ui)
    \/ \E t \in TaskIds : TaskBegin(t)
    \/ \E t \in TaskIds, r \in SampledResults, ui \in UiOutcomes, h \in UiOutcomes :
           TaskWake(t, r, ui, h)
    \/ \E t \in TaskIds : TaskCancel(t)

\* the event loop runs every task that is ready; the sleep of two seconds ends
FairWorkflow ==
    /\ WF_vars(\E t \in TaskIds : TaskBegin(t))
    /\ WF_vars(\E t \in TaskIds, r \in SampledResults, ui \in UiOutcomes, h \in UiOutcomes :
                   TaskWake(t, r, ui, h))

SpecWorkflow == InitWorkflow /\ [][NextWorkflow]_vars /\ FairWorkflow

\* C15: every detection the upload workflow dispatched process_detection for
\* eventually is COMPLETED or FAILED, whatever happens to its task.
C15_DispatchedEventuallyTerminal ==
    \A t \in TaskIds :
        [](t \in DOMAIN tasks =>
            <>(/\ t \in DOMAIN tasks
               /\ detections[tasks[t].detection_id].status \in Terminal))

(***************************************************************************)
(* The detection history of a user.                                        *)
(***************************************************************************)
\* variant: the entry shows the stored file name instead of the uploaded one
DetectionResult_storedName(detection_id, detection, image) ==
    [detection_id |-> detection_id,
     xray_image_id |-> detection.xray_image_id,
     filename |-> image.filename,
     status |-> detection.status,
     detected_disease |-> detection.detected_disease,
     confidence_score |-> detection.confidence_score,
     is_disease_detected |-> detection.is_disease_detected,
     processing_completed_at |-> detection.processing_completed_at,
     created_at |-> detection.created_at]

\* DetectionResult(detection_id=..., ..., created_at=detection.created_at)
DetectionResult(detection_id, detection, image) ==
    [detection_id |-> detection_id,
     xray_image_id |-> detection.xray_image_id,
     filename |-> image.original_filename,
     status |-> detection.status,
     detected_disease |-> detection.detected_disease,
     confidence_score |-> detection.confidence_score,
     is_disease_detected |-> detection.is_disease_detected,
     processing_completed_at |-> detection.processing_completed_at,
     created_at |-> detection.created_at]

\* variant: the join without its where clause
Joined_allUsers(user_id) ==
    {d \in DOMAIN detections : detections[d].xray_image_id \in DOMAIN images}

\* select(DiseaseDetection, XrayImage).join(XrayImage).where(XrayImage.user_id == user_id)
Joined(user_id) ==
    {d \in DOMAIN detections :
        /\ detections[d].xray_image_id \in DOMAIN images
        /\ images[detections[d].xray_image_id].user_id = user_id}

\* variant: order_by(DiseaseDetection.created_at), oldest first
OrderByCreatedAtDesc_ascending(ids) ==
    {o \in [1..Cardinality(ids) -> ids] :
        /\ \A j, k \in 1..Cardinality(ids) : j /= k => o[j] /= o[k]
        /\ \A k \in 1..(Cardinality(ids) - 1) :
               detections[o[k]].created_at <= detections[o[k + 1]].created_at}

\* order_by(desc(DiseaseDetection.created_at)): every order the database may
\* return the rows in; rows created at the same time come in any order
OrderByCreatedAtDesc(ids) ==
    {o \in [1..Cardinality(ids) -> ids] :
        /\ \A j, k \in 1..Cardinality(ids) : j /= k => o[j] /= o[k]
        /\ \A k \in 1..(Cardinality(ids) - 1) :
               detections[o[k]].created_at >= detections[o[k + 1]].created_at}

\* variant: one entry per image, that of its latest detection
GetUserDetectionHistory_onePerImage(user_id) ==
    {[k \in DOMAIN o |->
         DetectionResult(o[k], detections[o[k]], images[detections[o[k]].xray_image_id])] :
     o \in OrderByCreatedAtDesc(
              {d \in Joined(user_id) :
                  \A e \in Joined(user_id) :
                      detections[e].xray_image_id = detections[d].xray_image_id => e <= d})}

\* DetectionService.get_user_detection_history: the lists it may return
GetUserDetectionHistory(user_id) ==
    {[k \in DOMAIN o |->
         DetectionResult(o[k], detections[o[k]], images[detections[o[k]].xray_image_id])] :
     o \in OrderByCreatedAtDesc(Joined(user_id))}

\* DetectionService.get_detection
GetDetection(detection_id) ==
    /\ ret' = Outcome("get_detection", detection_id, "None")
    /\ UNCHANGED <<users, images, blobs, detections, sleeping, tasks, clock, utc_offset, foreign_keys>>

\* DetectionService.get_user_detection_history, the call
GetUserDetectionHistoryCall(user_id) ==
    /\ ret' = Outcome("get_user_detection_history", user_id, "None")
    /\ UNCHANGED <<users, images, blobs, detections, sleeping, tasks, clock, utc_offset, foreign_keys>>

\* two users, each with one uploaded image; a detection was started on the
\* image of the second user, and time has passed since
InitHistory ==
    /\ utc_offset \in UtcOffsets
    /\ foreign_keys \in BOOLEAN
    /\ users = Insert(Insert(<<>>, User("User 1", "user1@test.com", None, 0)),
                      User("User 2", "user2@test.com", None, 0))
    /\ images = Insert(Insert(<<>>, XrayImage(XrayImageCreate("bytes1", APng, 1, 0), 0)),
                       XrayImage(XrayImageCreate("bytes1", BJpg, 2, 0), 0))
    /\ blobs = {UniqueFilename("bytes1", APng, 0), UniqueFilename("bytes1", BJpg, 0)}
    /\ detections = Insert(<<>>, DiseaseDetection(DiseaseDetectionCreate(2, "TestModel"),
                                                  0 + utc_offset, 0))
    /\ sleeping = <<>>
    /\ tasks = <<>>
    /\ clock = 1
    /\ ret = Outcome("start_detection", 1, "None")

HistoryResults == {AiResult(PNEUMONIA, 6000, 800)}
HistoryErrors == {"timeout"}

\* the calls of DetectionService that write, on any id and in any order;
\* time stands still while they are made
NextHistory ==
    \/ \E i \in ImageIdArgs, m \in ModelNames :
           /\ Cardinality(DOMAIN detections) < MaxHistory
           /\ StartDetection(i, m)
    \/ \E d \in DetectionIdArgs : ProcessDetectionBegin(d)
    \/ \E d \in DetectionIdArgs, r \in HistoryResults : ProcessDetectionFinish(d, r)
    \/ \E d \in DetectionIdArgs, e \in HistoryErrors : MarkDetectionFailed(d, e)

SpecHistory == InitHistory /\ [][NextHistory]_vars

\* the owner of the image a history entry belongs to
OwnerOf(entry) == images[entry.xray_image_id].user_id

\* C16: the history of a user holds no detection whose image another user owns.
C16_Isolation ==
    \A u \in DOMAIN users : \A h \in GetUserDetectionHistory(u) :
        \A k \in DOMAIN h :
            /\ h[k].detection_id \in DOMAIN detections
            /\ detections[h[k].detection_id].xray_image_id = h[k].xray_image_id
            /\ OwnerOf(h[k]) = u

\* both users hold detections, in different states, and each history is non-empty
C16_Witness ==
    /\ \A u \in DOMAIN users : \E h \in GetUserDetectionHistory(u) : Len(h) >= 1
    /\ \E d \in DOMAIN detections : detections[d].status = FAILED
    /\ \E d \in DOMAIN detections : detections[d].status = PROCESSING

\* the detections stored for images of a user
OwnedBy(user_id) ==
    {d \in DOMAIN detections :
        \E i \in DOMAIN images : i = detections[d].xray_image_id /\ images[i].user_id = user_id}

\* C17: the history of a user has exactly one entry for each stored detection
\* on an image of that user, whatever its status and however many detections
\* the image has; its length is the number of those detections.
C17_Completeness ==
    \A u \in DOMAIN users :
        /\ GetUserDetectionHistory(u) /= {}
        /\ \A h \in GetUserDetectionHistory(u) :
               /\ {h[k].detection_id : k \in DOMAIN h} = OwnedBy(u)
               /\ \A j, k \in DOMAIN h : j /= k => h[j].detection_id /= h[k].detection_id
               /\ Len(h) = Cardinality(OwnedBy(u))

\* a user whose one image has two detections in different states gets both
C17_Witness ==
    \E u \in DOMAIN users : \E h \in GetUserDetectionHistory(u) :
        /\ Len(h) = 2
        /\ h[1].xray_image_id = h[2].xray_image_id
        /\ h[1].status = PENDING
        /\ h[2].status = COMPLETED

\* C18: in every list the history returns, each entry was created no earlier
\* than the entry after it, however the detections were processed or failed.
C18_NewestFirst ==
    \A u \in DOMAIN users : \A h \in GetUserDetectionHistory(u) :
        \A k \in 1..(Len(h) - 1) : h[k].created_at >= h[k + 1].created_at

\* the newer detection of a user is listed first although the older one is
\* still pending and the newer one already failed
C18_Witness ==
    \E u \in DOMAIN users : \E h \in GetUserDetectionHistory(u) :
        /\ Len(h) = 2
        /\ h[1].created_at > h[2].created_at
        /\ h[1].status = FAILED
        /\ h[2].status = PENDING

\* C19: every history entry carries the status, detected_disease,
\* confidence_score, is_disease_detected and processing_completed_at stored
\* for its detection at the time of the query, and the original_filename of
\* the detection's image.
C19_EntryMatchesRow ==
    \A u \in DOMAIN users : \A h \in GetUserDetectionHistory(u) :
        \A k \in DOMAIN h :
            LET detection == detections[h[k].detection_id]
            IN /\ h[k].status = detection.status
               /\ h[k].detected_disease = detection.detected_disease
               /\ h[k].confidence_score = detection.confidence_score
               /\ h[k].is_disease_detected = detection.is_disease_detected
               /\ h[k].processing_completed_at = detection.processing_completed_at
               /\ h[k].filename = images[detection.xray_image_id].original_filename

\* the history of the second user shows a completed entry with its confidence
\* and an entry that was marked failed after its result was stored, both
\* under the uploaded name of the image
C19_Witness ==
    \E h \in GetUserDetectionHistory(2) :
        /\ \E k \in DOMAIN h : /\ h[k].status = COMPLETED
                               /\ h[k].confidence_score = Some(6000)
                               /\ h[k].is_disease_detected
                               /\ h[k].filename = BJpg
        /\ \E k \in DOMAIN h : /\ h[k].status = FAILED
                               /\ h[k].confidence_score = Some(6000)
                               /\ IsSet(h[k].processing_completed_at)
                               /\ h[k].filename = BJpg

(***************************************************************************)
(* Image storage: the rows of xray_images and the files under UPLOAD_DIR.  *)
(***************************************************************************)
\* a stored file disappears from the upload directory behind the service's back
LoseBlob(file_path) ==
    /\ file_path \in blobs
    /\ blobs' = blobs \ {file_path}
    /\ UNCHANGED <<users, images, detections, sleeping, tasks, clock, ret, utc_offset, foreign_keys>>

\* a user exists, nothing is uploaded yet; the host keeps UTC and the
\* database enforces its foreign keys
InitStorage ==
    /\ users = Insert(<<>>, User("Storage Test", "storage@test.com", None, 0))
    /\ images = <<>>
    /\ blobs = {}
    /\ detections = <<>>
    /\ sleeping = <<>>
    /\ tasks = <<>>
    /\ clock = 0
    /\ utc_offset = 0
    /\ foreign_keys = TRUE
    /\ ret = Outcome("create_user", 1, "None")

\* the names files are stored under in this specification
StorageFilenames == {APng, CGif, LongNamePng}

NextStorage ==
    \/ Tick
    \/ \E c \in UploadContents, f \in StorageFilenames, u \in DOMAIN users, o \in OsOpenOutcomes :
           SaveUploadedImage(c, f, u, o)
    \/ \E i \in ImageIdArgs, m \in ModelNames :
           /\ Cardinality(DOMAIN detections) < MaxDetections
           /\ StartDetection(i, m)
    \/ \E i \in ImageIdArgs, o \in OsRemoveOutcomes : DeleteImage(i, o)
    \/ \E p \in blobs : LoseBlob(p)

SpecStorage == InitStorage /\ [][NextStorage]_vars

\* C20: delete_image on an image that exists returns True, and afterwards
\* neither the image row nor its file exists, whether or not the file was
\* still there before the call.
C20_DeleteRemovesBoth ==
    [][\A i \in DOMAIN images, o \in OsRemoveOutcomes :
          DeleteImage(i, o) =>
              /\ ret' = Returned("delete_image", i, TRUE)
              /\ i \notin DOMAIN images'
              /\ images[i].file_path \notin blobs']_vars

\* C21: delete_image on an id that has no row, as after a delete that went
\* through, returns False, raises nothing and changes no row and no file.
C21_DeleteAbsentReturnsFalse ==
    [][\A i \in ImageIdArgs \ DOMAIN images, o \in OsRemoveOutcomes :
          DeleteImage(i, o) =>
              /\ ret' = Returned("delete_image", i, FALSE)
              /\ UNCHANGED <<users, images, blobs, detections>>]_vars

\* delete_image returned False for an id without row while a file is stored
C21_Witness ==
    /\ ret.op = "delete_image"
    /\ ret = Returned("delete_image", ret.id, FALSE)
    /\ ret.id \notin DOMAIN images
    /\ blobs /= {}

\* C22: saving a file whose name does not end in .jpg, .jpeg or .png, or
\* whose content is larger than 10 MB, is refused and writes no file, no
\* image row and no detection.
C22_RejectedBeforeMutation ==
    [][/\ \A c \in UploadContents, f \in UploadFilenames, u \in UserIdArgs, o \in OsOpenOutcomes :
             (/\ SaveUploadedImage(c, f, u, o)
              /\ (~SupportedFormat(f) \/ ContentLength(c) > MaxUploadBytes)) =>
                 /\ ret'.error /= "None"
                 /\ UNCHANGED <<images, blobs, detections>>
       /\ \A c \in UploadContents, f \in UploadFilenames, u \in UserIdArgs,
             o \in OsOpenOutcomes, ui \in UploadUiOutcomes :
             (/\ HandleUpload(c, f, u, o, ui)
              /\ (~SupportedFormat(f) \/ ContentLength(c) > MaxUploadBytes)) =>
                 /\ ret'.error /= "None"
                 /\ UNCHANGED <<images, blobs, detections, tasks>>]_vars

(***************************************************************************)
(* The classifier on its own: one detection was started, process_detection *)
(* is called on it any number of times and draws its results from the ends *)
(* of the ranges of _simulate_ai_detection.                                *)
(***************************************************************************)
InitClassifier ==
    /\ clock = 0
    /\ utc_offset \in UtcOffsets
    /\ foreign_keys \in BOOLEAN
    /\ users = Insert(<<>>, User("Dr. X", "x@h.com", None, 0))
    /\ images = Insert(<<>>, XrayImage(XrayImageCreate("bytes1", APng, 1, 0), 0))
    /\ blobs = {UniqueFilename("bytes1", APng, 0)}
    /\ detections = Insert(<<>>, DiseaseDetection(DiseaseDetectionCreate(1, "TestModel"), Now, UtcNow))
    /\ sleeping = <<>>
    /\ tasks = <<>>
    /\ ret = Outcome("start_detection", 1, "None")

NextClassifier ==
    \/ \E d \in DetectionIdArgs : ProcessDetectionBegin(d)
    \/ \E d \in DetectionIdArgs, r \in ClassifierResults : ProcessDetectionFinish(d, r)

SpecClassifier == InitClassifier /\ [][NextClassifier]_vars

\* C23: the confidence_score of a COMPLETED detection, counted in units of
\* 0.0001, lies in 7000..9500 when the label is NORMAL and in 6000..9000
\* otherwise, so always in 0..10000; and so does every confidence the
\* classifier can draw for a label.
C23_ConfidenceInRange ==
    /\ \A d \in DOMAIN detections :
           detections[d].status = COMPLETED =>
               /\ IsSet(detections[d].confidence_score)
               /\ IsSet(detections[d].detected_disease)
               /\ LET c == detections[d].confidence_score[1]
                  IN /\ detections[d].detected_disease = Some(NORMAL) => (7000 <= c /\ c <= 9500)
                     /\ detections[d].detected_disease /= Some(NORMAL) => (6000 <= c /\ c <= 9000)
                     /\ 0 <= c /\ c <= 10000
    /\ \A label \in DiseaseType :
           \A c \in ConfidenceRange(label) :
               /\ label = NORMAL => (7000 <= c /\ c <= 9500)
               /\ label /= NORMAL => (6000 <= c /\ c <= 9000)

\* a healthy result was committed at the low end of its range
C23_Witness ==
    \E d \in DOMAIN detections :
        /\ detections[d].status = COMPLETED
        /\ detections[d].detected_disease = Some(NORMAL)
        /\ detections[d].confidence_score = Some(7000)

\* C24: when a process_detection call commits its result on a detection
\* that another call completed while this one slept, either it is rejected
\* or it stores the same detected_disease and confidence_score.
C24_ConcurrentProcessConverges ==
    [][\A d \in DOMAIN detections, r \in SampledResults :
          (ProcessDetectionFinish(d, r) /\ detections[d].status = COMPLETED) =>
              \/ ret'.error /= "None"
              \/ /\ detections'[d].detected_disease = detections[d].detected_disease
                 /\ detections'[d].confidence_score = detections[d].confidence_score]_vars

\* C25: in every committed state a reader can see, a COMPLETED detection
\* has detected_disease, confidence_score, is_disease_detected,
\* processing_completed_at and processing_duration_seconds set, and a FAILED
\* one has error_message and processing_completed_at set.
C25_TransitionsAtomic ==
    \A d \in DOMAIN detections :
        /\ detections[d].status = COMPLETED =>
               /\ IsSet(detections[d].detected_disease)
               /\ IsSet(detections[d].confidence_score)
               /\ detections[d].is_disease_detected \in BOOLEAN
               /\ IsSet(detections[d].processing_completed_at)
               /\ IsSet(detections[d].processing_duration_seconds)
        /\ detections[d].status = FAILED =>
               /\ IsSet(detections[d].error_message)
               /\ IsSet(detections[d].processing_completed_at)

\* one process_detection has committed its result while another call on the
\* same detection is still suspended
C25_Witness ==
    \E d \in DOMAIN sleeping :
        /\ sleeping[d] > 0
        /\ detections[d].status = COMPLETED
        /\ ret = Outcome("process_detection", d, "None")

\* C26: every commit that changes a detection stamps its updated_at with the
\* time of the commit, never earlier than the value it had nor than created_at.
C26_UpdatedAtAdvances ==
    [][\A d \in DOMAIN detections :
          detections'[d] /= detections[d] =>
              /\ detections'[d].updated_at = Now
              /\ detections'[d].updated_at >= detections[d].updated_at
              /\ detections'[d].updated_at >= detections[d].created_at]_vars

(***************************************************************************)
(* References between the tables, under every service call that inserts,  *)
(* updates or deletes rows.  Time stands still: no call here reads a       *)
(* stored timestamp.                                                       *)
(***************************************************************************)
\* the names files are uploaded under in this specification
IntegrityFilenames == {APng, SurrogatePng} \cup LongFilenames

NextIntegrity ==
    \/ CreateUser
    \/ \E c \in Contents, f \in IntegrityFilenames, u \in UserIdArgs, o \in OsOpenOutcomes :
           SaveUploadedImage(c, f, u, o)
    \/ \E i \in ImageIdArgs, m \in ModelNames :
           /\ Cardinality(DOMAIN detections) < MaxDetections
           /\ StartDetection(i, m)
    \/ \E d \in DetectionIdArgs : ProcessDetectionBegin(d)
    \/ \E d \in DetectionIdArgs, r \in HistoryResults : ProcessDetectionFinish(d, r)
    \/ \E d \in DetectionIdArgs, e \in HistoryErrors : MarkDetectionFailed(d, e)
    \/ \E i \in ImageIdArgs, o \in OsRemoveOutcomes : DeleteImage(i, o)

SpecIntegrity == Init /\ [][NextIntegrity]_vars

NextFrame ==
    \/ \E i \in ImageIdArgs, m \in ModelNames :
           /\ Cardinality(DOMAIN detections) < MaxHistory
           /\ StartDetection(i, m)
    \/ \E d \in DetectionIdArgs : ProcessDetectionBegin(d)
    \/ \E d \in DetectionIdArgs, r \in HistoryResults : ProcessDetectionFinish(d, r)
    \/ \E d \in DetectionIdArgs, e \in HistoryErrors : MarkDetectionFailed(d, e)
    \/ \E d \in DetectionIdArgs : GetDetection(d)
    \/ \E u \in UserIdArgs : GetUserDetectionHistoryCall(u)

\* the two users and their images on a host that keeps UTC, in a database
\* that enforces its foreign keys
InitFrame == InitHistory /\ utc_offset = 0 /\ foreign_keys = TRUE

SpecFrame == InitFrame /\ [][NextFrame]_vars

\* C28: start_detection changes no user, no image and no stored detection
\* and adds at most one; process_detection(d) and mark_detection_failed(d)
\* change no user, no image and no detection other than d; get_detection
\* and get_user_detection_history change nothing stored.
C28_Frame ==
    [][/\ \A i \in ImageIdArgs, m \in ModelNames :
             StartDetection(i, m) =>
                 /\ UNCHANGED <<users, images, blobs>>
                 /\ \A o \in DOMAIN detections :
                        o \in DOMAIN detections' /\ detections'[o] = detections[o]
                 /\ Cardinality(Created) <= 1
       /\ \A d \in DetectionIdArgs :
             (\/ ProcessDetectionBegin(d)
              \/ \E r \in HistoryResults : ProcessDetectionFinish(d, r)
              \/ \E e \in HistoryErrors : MarkDetectionFailed(d, e)) =>
                 /\ UNCHANGED <<users, images, blobs>>
                 /\ DOMAIN detections' = DOMAIN detections
                 /\ \A o \in DOMAIN detections \ {d} : detections'[o] = detections[o]
       /\ \A d \in DetectionIdArgs :
             GetDetection(d) => UNCHANGED <<users, images, blobs, detections, sleeping, tasks>>
       /\ \A u \in UserIdArgs :
             GetUserDetectionHistoryCall(u) =>
                 UNCHANGED <<users, images, blobs, detections, sleeping, tasks>>]_vars

\* one detection of an image has just been completed and the other
\* detection of the same image is still PENDING
C28_Witness ==
    \E d, o \in DOMAIN detections :
        /\ d /= o
        /\ detections[d].xray_image_id = detections[o].xray_image_id
        /\ ret = Outcome("process_detection", d, "None")
        /\ detections[d].status = COMPLETED
        /\ detections[o].status = PENDING

\* C29: when the task of the upload workflow wakes up and process_detection
\* finds its detection and commits the result, the workflow leaves the
\* detection COMPLETED, whether or not a later notification or navigation
\* raises.
C29_CompletedNotMarkedFailed ==
    [][\A t \in TaskIds, r \in SampledResults, ui \in UiOutcomes, h \in UiOutcomes :
          (/\ TaskWake(t, r, ui, h)
           /\ tasks[t].detection_id \in DOMAIN detections) =>
              detections'[tasks[t].detection_id].status = COMPLETED]_vars

\* the entries of a history that are COMPLETED
CompletedEntries(history) == {k \in DOMAIN history : history[k].status = COMPLETED}

\* len([h for h in history if h.status == DetectionStatus.COMPLETED])
CompletedDetections(history) == Cardinality(CompletedEntries(history))

\* len([h for h in history if h.is_disease_detected])
DiseasesDetected(history) ==
    Cardinality({k \in DOMAIN history : history[k].is_disease_detected})

\* normal_results = completed_detections - diseases_detected
NormalResults(history) == CompletedDetections(history) - DiseasesDetected(history)

\* C30: for every history a user can be shown, the summary's Normal count
\* is the number of COMPLETED entries labelled NORMAL and is not negative,
\* and its disease count does not exceed its completed count.
C30_SummaryConsistent ==
    \A u \in DOMAIN users : \A h \in GetUserDetectionHistory(u) :
        /\ NormalResults(h) =
               Cardinality({k \in CompletedEntries(h) : h[k].detected_disease = Some(NORMAL)})
        /\ NormalResults(h) >= 0
        /\ DiseasesDetected(h) <= CompletedDetections(h)

====
